---- MODULE Spec2Model ----
(***************************************************************************)
(* ssh-picker: the configuration document engine (src/ssh_config.rs) and   *)
(* the interactive session state machine (src/app.rs).                     *)
(*                                                                         *)
(* Rust Strings are TLA+ strings; a character is a string of length 1.     *)
(* Option<T> is a record: None or Some(v).                                 *)
(***************************************************************************)
EXTENDS Integers, Sequences, FiniteSets, TLC

VARIABLES
    file_exists,        \* the configuration file exists on disk
    file_text,          \* its content on disk
    cfg_text,           \* SshConfigFile.text, the in-memory copy
    hosts,              \* AppState.hosts
    filtered_hosts,     \* AppState.filtered_hosts (0-based indices into hosts)
    selected_index,     \* AppState.selected_index
    filter_text,        \* AppState.filter_text
    mode,               \* AppState.mode
    needs_full_redraw,  \* AppState.needs_full_redraw
    pc,                 \* where run() is: "loop", "launch", "exited", "error"
    raw_mode,           \* the terminal is in raw mode
    launch_host,        \* the argument handed to the connection client
    steps,              \* how many events run() has handled
    last                \* history: the last operation applied and what it saw

vars == <<file_exists, file_text, cfg_text, hosts, filtered_hosts, selected_index,
          filter_text, mode, needs_full_redraw, pc, raw_mode, launch_host, steps, last>>

None == [some |-> FALSE]
Some(v) == [some |-> TRUE, v |-> v]

Min(a, b) == IF a < b THEN a ELSE b

\* usize::saturating_sub
saturating_sub(a, b) == IF a >= b THEN a - b ELSE 0

(***************************************************************************)
(* str primitives                                                          *)
(***************************************************************************)
CharAt(s, i) == SubSeq(s, i, i)

\* char::is_whitespace, on the characters a configuration file holds
is_whitespace(c) == c \in {" ", "\t", "\n", "\r"}

RECURSIVE trim_start(_)
trim_start(s) ==
    IF Len(s) > 0 /\ is_whitespace(CharAt(s, 1))
    THEN trim_start(SubSeq(s, 2, Len(s)))
    ELSE s

RECURSIVE trim_end(_)
trim_end(s) ==
    IF Len(s) > 0 /\ is_whitespace(CharAt(s, Len(s)))
    THEN trim_end(SubSeq(s, 1, Len(s) - 1))
    ELSE s

trim(s) == trim_end(trim_start(s))

starts_with(s, p) == Len(s) >= Len(p) /\ SubSeq(s, 1, Len(p)) = p

ends_with(s, p) == Len(s) >= Len(p) /\ SubSeq(s, Len(s) - Len(p) + 1, Len(s)) = p

\* str::strip_prefix: the rest after p, when s starts with p
strip_prefix(s, p) == IF starts_with(s, p) THEN Some(SubSeq(s, Len(p) + 1, Len(s))) ELSE None

\* str::contains
contains(hay, q) == \E i \in 1..(Len(hay) + 1) : starts_with(SubSeq(hay, i, Len(hay)), q)

UpperCase == "ABCDEFGHIJKLMNOPQRSTUVWXYZ"
LowerCase == "abcdefghijklmnopqrstuvwxyz"

char_to_lowercase(c) ==
    IF \E i \in 1..Len(UpperCase) : CharAt(UpperCase, i) = c
    THEN CharAt(LowerCase, CHOOSE i \in 1..Len(UpperCase) : CharAt(UpperCase, i) = c)
    ELSE c

\* str::to_lowercase
RECURSIVE to_lowercase(_)
to_lowercase(s) ==
    IF Len(s) = 0 THEN ""
    ELSE char_to_lowercase(CharAt(s, 1)) \o to_lowercase(SubSeq(s, 2, Len(s)))

\* String::pop: the string without its last character
pop(s) == IF Len(s) = 0 THEN s ELSE SubSeq(s, 1, Len(s) - 1)

\* position of the first "\n" of s, 0 when there is none
RECURSIVE find_newline(_, _)
find_newline(s, i) ==
    IF i > Len(s) THEN 0
    ELSE IF CharAt(s, i) = "\n" THEN i
    ELSE find_newline(s, i + 1)

\* str::lines: split at "\n", a final line needs no terminator, and a "\r"
\* right before the "\n" belongs to the line ending
RECURSIVE lines(_)
lines(text) ==
    IF Len(text) = 0 THEN <<>>
    ELSE LET n == find_newline(text, 1)
             raw == IF n = 0 THEN text ELSE SubSeq(text, 1, n - 1)
             line == IF n # 0 /\ ends_with(raw, "\r") THEN pop(raw) ELSE raw
             rest == IF n = 0 THEN "" ELSE SubSeq(text, n + 1, Len(text))
         IN  <<line>> \o lines(rest)

\* str::split_whitespace
RECURSIVE split_whitespace(_)
split_whitespace(s) ==
    LET t == trim_start(s)
        WordEnd[i \in 1..(Len(t) + 1)] ==
            IF i > Len(t) \/ is_whitespace(CharAt(t, i)) THEN i - 1 ELSE WordEnd[i + 1]
    IN  IF Len(t) = 0 THEN <<>>
        ELSE <<SubSeq(t, 1, WordEnd[1])>> \o split_whitespace(SubSeq(t, WordEnd[1] + 1, Len(t)))

\* [&str]::join
RECURSIVE join(_, _)
join(parts, sep) ==
    IF Len(parts) = 0 THEN ""
    ELSE IF Len(parts) = 1 THEN parts[1]
    ELSE parts[1] \o sep \o join(Tail(parts), sep)

Digits == "0123456789"

is_digit(c) == \E i \in 1..Len(Digits) : CharAt(Digits, i) = c

digit_value(c) == (CHOOSE i \in 1..Len(Digits) : CharAt(Digits, i) = c) - 1

U16_MAX == 65535

\* the value of a string of decimal digits, -1 once it exceeds u16
RECURSIVE digits_value(_, _)
digits_value(s, acc) ==
    IF Len(s) = 0 THEN acc
    ELSE LET v == acc * 10 + digit_value(CharAt(s, 1))
         IN  IF v > U16_MAX THEN -1 ELSE digits_value(SubSeq(s, 2, Len(s)), v)

\* str::parse::<u16>: decimal digits after an optional "+", no overflow
parse_u16(s) ==
    LET body == IF starts_with(s, "+") THEN SubSeq(s, 2, Len(s)) ELSE s
    IN  IF Len(body) = 0 \/ \E i \in 1..Len(body) : ~is_digit(CharAt(body, i))
        THEN None
        ELSE IF digits_value(body, 0) < 0 THEN None ELSE Some(digits_value(body, 0))

\* u16::to_string
RECURSIVE to_string(_)
to_string(n) ==
    IF n < 10 THEN CharAt(Digits, n + 1)
    ELSE to_string(n \div 10) \o CharAt(Digits, (n % 10) + 1)

(***************************************************************************)
(* SshHostEntry and the document engine (src/ssh_config.rs)                *)
(***************************************************************************)
SshHostEntry(pattern, hostname, user, port, other) ==
    [pattern |-> pattern, hostname |-> hostname, user |-> user, port |-> port,
     other |-> other]

\* matches as it would be if the haystack were not lower-cased
matches_case_sensitive(entry, q) ==
    LET hay0 == entry.pattern
        hay1 == IF entry.hostname.some THEN hay0 \o " " \o entry.hostname.v ELSE hay0
        hay2 == IF entry.user.some THEN hay1 \o " " \o entry.user.v ELSE hay1
    IN  contains(hay2, q)

\* SshHostEntry::matches: q is already lower-cased by the caller
matches(entry, q) ==
    LET hay0 == to_lowercase(entry.pattern)
        hay1 == IF entry.hostname.some
                THEN hay0 \o " " \o to_lowercase(entry.hostname.v) ELSE hay0
        hay2 == IF entry.user.some
                THEN hay1 \o " " \o to_lowercase(entry.user.v) ELSE hay1
    IN  contains(hay2, q)

RECURSIVE render_other(_)
render_other(other) ==
    IF Len(other) = 0 THEN ""
    ELSE "    " \o other[1][1] \o " " \o other[1][2] \o "\n" \o render_other(Tail(other))

render_host_block(entry) ==
    "Host " \o entry.pattern \o "\n"
    \o (IF entry.hostname.some THEN "    HostName " \o entry.hostname.v \o "\n" ELSE "")
    \o (IF entry.user.some THEN "    User " \o entry.user.v \o "\n" ELSE "")
    \o (IF entry.port.some THEN "    Port " \o to_string(entry.port.v) \o "\n" ELSE "")
    \o render_other(entry.other)
    \o "\n"

\* one directive line applied to the entry being built (the match on key_lower)
apply_directive(entry, trimmed) ==
    LET parts == split_whitespace(trimmed)
        key == parts[1]
        value == join(Tail(parts), " ")
        key_lower == to_lowercase(key)
    IN  IF key_lower = "hostname" THEN [entry EXCEPT !.hostname = Some(value)]
        ELSE IF key_lower = "user" THEN [entry EXCEPT !.user = Some(value)]
        ELSE IF key_lower = "port" THEN [entry EXCEPT !.port = parse_u16(value)]
        ELSE [entry EXCEPT !.other = Append(@, <<key, value>>)]

\* the loop of parse_hosts_from_text over the remaining lines
RECURSIVE parse_loop(_, _, _)
parse_loop(ls, done, current) ==
    IF Len(ls) = 0
    THEN IF current.some THEN Append(done, current.v) ELSE done
    ELSE LET trimmed == trim(ls[1])
             rest == strip_prefix(trimmed, "Host ")
         IN  IF trimmed = "" \/ starts_with(trimmed, "#")
             THEN parse_loop(Tail(ls), done, current)
             ELSE IF rest.some
             THEN parse_loop(Tail(ls),
                             IF current.some THEN Append(done, current.v) ELSE done,
                             Some(SshHostEntry(trim(rest.v), None, None, None, <<>>)))
             ELSE IF current.some
             THEN parse_loop(Tail(ls), done, Some(apply_directive(current.v, trimmed)))
             ELSE parse_loop(Tail(ls), done, current)

parse_hosts_from_text(text) == parse_loop(lines(text), <<>>, None)

\* SshConfigFile::list_hosts on the in-memory text
list_hosts(text) == parse_hosts_from_text(text)

\* the test both mutations use for a declaration line
is_host_line(line) == starts_with(trim_start(line), "Host ")

\* [5..].trim() of a declaration line
host_rest(line) == trim(SubSeq(trim_start(line), 6, Len(trim_start(line))))

\* push_str(l); push('\n') for every line
RECURSIVE push_lines(_)
push_lines(ls) ==
    IF Len(ls) = 0 THEN "" ELSE ls[1] \o "\n" \o push_lines(Tail(ls))

\* upsert_host: index of the first declaration line carrying the pattern, 0 if none
find_start(ls, pattern) ==
    IF \E i \in 1..Len(ls) : is_host_line(ls[i]) /\ host_rest(ls[i]) = pattern
    THEN CHOOSE i \in 1..Len(ls) :
            /\ is_host_line(ls[i]) /\ host_rest(ls[i]) = pattern
            /\ \A k \in 1..(i - 1) : ~(is_host_line(ls[k]) /\ host_rest(ls[k]) = pattern)
    ELSE 0

\* upsert_host: the while loop, the first declaration line after i or Len + 1
RECURSIVE block_end(_, _)
block_end(ls, j) ==
    IF j <= Len(ls) /\ ~is_host_line(ls[j]) THEN block_end(ls, j + 1) ELSE j

\* upsert_text as it would be if the append did not first end the last line
upsert_text_no_newline(text, entry) ==
    LET ls == lines(text)
        i == find_start(ls, entry.pattern)
        new_block == render_host_block(entry)
    IN  IF i # 0
        THEN LET j == block_end(ls, i + 1)
             IN  push_lines(SubSeq(ls, 1, i - 1)) \o new_block
                 \o push_lines(SubSeq(ls, j, Len(ls)))
        ELSE text \o new_block

\* upsert_host: the text written, from the text read
upsert_text(text, entry) ==
    LET ls == lines(text)
        i == find_start(ls, entry.pattern)
        new_block == render_host_block(entry)
    IN  IF i # 0
        THEN LET j == block_end(ls, i + 1)
             IN  push_lines(SubSeq(ls, 1, i - 1)) \o new_block
                 \o push_lines(SubSeq(ls, j, Len(ls)))
        ELSE (IF ~ends_with(text, "\n") /\ text # "" THEN text \o "\n" ELSE text)
             \o new_block

\* delete_host: the while loop from line i on
RECURSIVE delete_loop(_, _)
delete_loop(ls, pattern) ==
    IF Len(ls) = 0 THEN ""
    ELSE IF is_host_line(ls[1]) /\ host_rest(ls[1]) = pattern
    THEN delete_loop(SubSeq(ls, block_end(ls, 2), Len(ls)), pattern)
    ELSE ls[1] \o "\n" \o delete_loop(Tail(ls), pattern)

\* delete_host: the text written, from the text read
delete_text(text, pattern) == delete_loop(lines(text), pattern)

(***************************************************************************)
(* The engine's file I/O.  io names how far the call gets before an I/O    *)
(* error: "ok", or the step that fails.  The result is the Result (ok) and *)
(* what the disk and the SshConfigFile hold afterwards.                    *)
(***************************************************************************)
IoResult(ok, exists, on_disk, in_memory) ==
    [ok |-> ok, file_exists |-> exists, file_text |-> on_disk, cfg_text |-> in_memory]

\* a write_all that fails leaves the truncated file with part of the text
partial_write(new_text) == SubSeq(new_text, 1, Len(new_text) \div 2)

\* the steps of upsert_host that can fail
UpsertIo(exists) ==
    {"ok", "mkdir_err", "open_err", "write_err", "reload_err"}
    \cup (IF exists THEN {"read_err"} ELSE {})

\* the steps of delete_host that can fail
DeleteIo(exists) ==
    IF exists THEN {"ok", "read_err", "open_err", "write_err", "reload_err"} ELSE {"ok"}

\* upsert_host as it would be if it set the in-memory text before writing the
\* file
upsert_host_memory_first(exists, on_disk, in_memory, entry, io) ==
    LET text == IF exists THEN on_disk ELSE ""
        new_text == upsert_text(text, entry)
    IN  IF io \in {"read_err", "mkdir_err", "open_err"}
        THEN IoResult(FALSE, exists, on_disk, in_memory)
        ELSE IF io = "write_err"
        THEN IoResult(FALSE, TRUE, partial_write(new_text), new_text)
        ELSE IF io = "reload_err"
        THEN IoResult(FALSE, TRUE, new_text, new_text)
        ELSE IoResult(TRUE, TRUE, new_text, new_text)

\* upsert_host as it would be without the reload that ends it
upsert_host_no_reload(exists, on_disk, in_memory, entry, io) ==
    LET text == IF exists THEN on_disk ELSE ""
        new_text == upsert_text(text, entry)
    IN  IF io \in {"read_err", "mkdir_err", "open_err"}
        THEN IoResult(FALSE, exists, on_disk, in_memory)
        ELSE IF io = "write_err"
        THEN IoResult(FALSE, TRUE, partial_write(new_text), in_memory)
        ELSE IF io = "reload_err"
        THEN IoResult(FALSE, TRUE, new_text, in_memory)
        ELSE IoResult(TRUE, TRUE, new_text, in_memory)

\* SshConfigFile::upsert_host
upsert_host(exists, on_disk, in_memory, entry, io) ==
    LET text == IF exists THEN on_disk ELSE ""
        new_text == upsert_text(text, entry)
    IN  IF io \in {"read_err", "mkdir_err", "open_err"}
        THEN IoResult(FALSE, exists, on_disk, in_memory)
        ELSE IF io = "write_err"
        THEN IoResult(FALSE, TRUE, partial_write(new_text), in_memory)
        ELSE IF io = "reload_err"
        THEN IoResult(FALSE, TRUE, new_text, in_memory)
        ELSE IoResult(TRUE, TRUE, new_text, new_text)

\* SshConfigFile::delete_host
delete_host(exists, on_disk, in_memory, pattern, io) ==
    LET new_text == delete_text(on_disk, pattern)
    IN  IF ~exists
        THEN IoResult(TRUE, exists, on_disk, in_memory)
        ELSE IF io \in {"read_err", "open_err"}
        THEN IoResult(FALSE, exists, on_disk, in_memory)
        ELSE IF io = "write_err"
        THEN IoResult(FALSE, TRUE, partial_write(new_text), in_memory)
        ELSE IF io = "reload_err"
        THEN IoResult(FALSE, TRUE, new_text, in_memory)
        ELSE IoResult(TRUE, TRUE, new_text, new_text)

\* SshConfigFile::load: a missing file is an empty document
load(exists, on_disk) == IF exists THEN on_disk ELSE ""

(***************************************************************************)
(* AppState (src/app.rs)                                                   *)
(***************************************************************************)
ModeNormal == [tag |-> "Normal"]
ModeFilter == [tag |-> "Filter"]
ModeConfirm(pattern) == [tag |-> "Confirm", pattern |-> pattern]
ModeEditForm(form) == [tag |-> "EditForm", form |-> form]

FormData(is_editing, pattern, hostname, user, port, current_field) ==
    [is_editing |-> is_editing, pattern |-> pattern, hostname |-> hostname,
     user |-> user, port |-> port, current_field |-> current_field]

\* (0..n).collect()
identity_indices(n) == [i \in 1..n |-> i - 1]

\* AppState::selected_host
selected_host(hs, filtered, selected) ==
    IF selected < Len(filtered) /\ filtered[selected + 1] < Len(hs)
    THEN Some(hs[filtered[selected + 1] + 1])
    ELSE None

\* the indices i (0-based, increasing) of the hosts matching the query
RECURSIVE filter_indices(_, _, _)
filter_indices(hs, query, i) ==
    IF i >= Len(hs) THEN <<>>
    ELSE (IF matches(hs[i + 1], query) THEN <<i>> ELSE <<>>)
         \o filter_indices(hs, query, i + 1)

\* apply_filter as it would be without the final clamp of selected_index
apply_filter_no_clamp(hs, text, selected) ==
    [filtered_hosts |-> IF text = "" THEN identity_indices(Len(hs))
                        ELSE filter_indices(hs, to_lowercase(text), 0),
     selected_index |-> selected]

\* apply_filter as it would be if it kept the index list it had and only
\* clamped selected_index
apply_filter_stale(hs, text, selected) ==
    [filtered_hosts |-> filtered_hosts,
     selected_index |-> IF selected >= Len(filtered_hosts)
                        THEN saturating_sub(Len(filtered_hosts), 1) ELSE selected]

\* AppState::apply_filter: the new filtered_hosts and selected_index
apply_filter(hs, text, selected) ==
    LET filtered == IF text = "" THEN identity_indices(Len(hs))
                    ELSE filter_indices(hs, to_lowercase(text), 0)
    IN  [filtered_hosts |-> filtered,
         selected_index |-> IF selected >= Len(filtered)
                            THEN saturating_sub(Len(filtered), 1) ELSE selected]

PAGE == 10

(***************************************************************************)
(* Bounds of the model                                                     *)
(***************************************************************************)
\* a session handles at most this many events
MaxSteps == 7

\* the generated documents have at most this many lines
MaxLines == 3

\* the generated host lists have at most this many entries
MaxHosts == 3

\* the keys the user presses as InputChar
InputChars == {"y", "Y", "n", "N", "R", "b", "c", "0"}

\* what the user types into the filter and into the four form fields: a
\* character is typed only when the text stays within these
FilterTyped == {"R", "b"}
FieldTyped(field) ==
    IF field = 0 THEN {"c"}
    ELSE IF field = 1 THEN {"b"}
    ELSE IF field = 2 THEN {"R"}
    ELSE {"0"}

(***************************************************************************)
(* handle_action (src/app.rs), one action per UiAction, as run() calls it: *)
(* the loop clears needs_full_redraw before it draws and reads the event.  *)
(***************************************************************************)
Doc == <<file_exists, file_text, cfg_text>>
Term == <<pc, raw_mode, launch_host>>

\* run() reads the event named act and hands it to handle_action
Dispatch(act) ==
    /\ pc = "loop"
    /\ steps < MaxSteps
    /\ steps' = steps + 1
    /\ last' = [act |-> act]

MoveUp ==
    /\ Dispatch("MoveUp")
    /\ selected_index' = saturating_sub(selected_index, 1)
    /\ needs_full_redraw' = FALSE
    /\ UNCHANGED <<Doc, Term, hosts, filtered_hosts, filter_text, mode>>

MoveDown ==
    /\ Dispatch("MoveDown")
    /\ selected_index' = IF selected_index + 1 < Len(filtered_hosts)
                         THEN selected_index + 1 ELSE selected_index
    /\ needs_full_redraw' = FALSE
    /\ UNCHANGED <<Doc, Term, hosts, filtered_hosts, filter_text, mode>>

PageUp ==
    /\ Dispatch("PageUp")
    /\ selected_index' = saturating_sub(selected_index, PAGE)
    /\ needs_full_redraw' = FALSE
    /\ UNCHANGED <<Doc, Term, hosts, filtered_hosts, filter_text, mode>>

PageDown ==
    /\ Dispatch("PageDown")
    /\ selected_index' = Min(selected_index + PAGE, saturating_sub(Len(filtered_hosts), 1))
    /\ needs_full_redraw' = FALSE
    /\ UNCHANGED <<Doc, Term, hosts, filtered_hosts, filter_text, mode>>

BeginFilter ==
    /\ Dispatch("BeginFilter")
    /\ mode' = ModeFilter
    /\ needs_full_redraw' = FALSE
    /\ UNCHANGED <<Doc, Term, hosts, filtered_hosts, selected_index, filter_text>>

\* the field of the form the cursor is on
form_field(form) ==
    IF form.current_field = 0 THEN form.pattern
    ELSE IF form.current_field = 1 THEN form.hostname
    ELSE IF form.current_field = 2 THEN form.user
    ELSE form.port

\* the form with the field under the cursor set to text; a cursor outside 0..3
\* returns early and changes nothing
with_form_field(form, text) ==
    IF form.current_field = 0 THEN [form EXCEPT !.pattern = text]
    ELSE IF form.current_field = 1 THEN [form EXCEPT !.hostname = text]
    ELSE IF form.current_field = 2 THEN [form EXCEPT !.user = text]
    ELSE IF form.current_field = 3 THEN [form EXCEPT !.port = text]
    ELSE form

\* InputChar in Mode::Filter
InputCharFilter(ch) ==
    /\ Dispatch("InputCharFilter")
    /\ mode.tag = "Filter"
    /\ (filter_text \o ch) \in FilterTyped
    /\ filter_text' = filter_text \o ch
    /\ LET f == apply_filter(hosts, filter_text', selected_index)
       IN  /\ filtered_hosts' = f.filtered_hosts
           /\ selected_index' = f.selected_index
    /\ needs_full_redraw' = FALSE
    /\ UNCHANGED <<Doc, Term, hosts, mode>>

\* InputChar 'y' in Mode::Confirm as it would be if it deleted the host under
\* the selection instead of the pattern kept in the confirmation
InputCharConfirmYes_deletes_selected(ch) ==
    /\ Dispatch("InputCharConfirmYes")
    /\ mode.tag = "Confirm"
    /\ ch \in {"y", "Y"}
    /\ \E io \in DeleteIo(file_exists) :
          LET sel == selected_host(hosts, filtered_hosts, selected_index)
              r == delete_host(file_exists, file_text, cfg_text,
                               IF sel.some THEN sel.v.pattern ELSE mode.pattern, io)
              hs == list_hosts(r.cfg_text)
              f == apply_filter(hs, filter_text, selected_index)
          IN  /\ file_exists' = r.file_exists
              /\ file_text' = r.file_text
              /\ cfg_text' = r.cfg_text
              /\ IF r.ok
                 THEN /\ hosts' = hs
                      /\ filtered_hosts' = f.filtered_hosts
                      /\ selected_index' = f.selected_index
                      /\ mode' = ModeNormal
                      /\ needs_full_redraw' = TRUE
                      /\ UNCHANGED pc
                 ELSE /\ pc' = "error"
                      /\ needs_full_redraw' = FALSE
                      /\ UNCHANGED <<hosts, filtered_hosts, selected_index, mode>>
    /\ UNCHANGED <<filter_text, raw_mode, launch_host>>

\* InputChar 'y' | 'Y' in Mode::Confirm
InputCharConfirmYes(ch) ==
    /\ Dispatch("InputCharConfirmYes")
    /\ mode.tag = "Confirm"
    /\ ch \in {"y", "Y"}
    /\ \E io \in DeleteIo(file_exists) :
          LET r == delete_host(file_exists, file_text, cfg_text, mode.pattern, io)
              hs == list_hosts(r.cfg_text)
              f == apply_filter(hs, filter_text, selected_index)
          IN  /\ file_exists' = r.file_exists
              /\ file_text' = r.file_text
              /\ cfg_text' = r.cfg_text
              /\ IF r.ok
                 THEN /\ hosts' = hs
                      /\ filtered_hosts' = f.filtered_hosts
                      /\ selected_index' = f.selected_index
                      /\ mode' = ModeNormal
                      /\ needs_full_redraw' = TRUE
                      /\ UNCHANGED pc
                 ELSE /\ pc' = "error"
                      /\ needs_full_redraw' = FALSE
                      /\ UNCHANGED <<hosts, filtered_hosts, selected_index, mode>>
    /\ UNCHANGED <<filter_text, raw_mode, launch_host>>

\* InputChar 'n' | 'N' in Mode::Confirm
InputCharConfirmNo(ch) ==
    /\ Dispatch("InputCharConfirmNo")
    /\ mode.tag = "Confirm"
    /\ ch \in {"n", "N"}
    /\ mode' = ModeNormal
    /\ needs_full_redraw' = TRUE
    /\ UNCHANGED <<Doc, Term, hosts, filtered_hosts, selected_index, filter_text>>

\* InputChar in Mode::EditForm
InputCharForm(ch) ==
    /\ Dispatch("InputCharForm")
    /\ mode.tag = "EditForm"
    /\ (form_field(mode.form) \o ch) \in FieldTyped(mode.form.current_field)
    /\ mode' = ModeEditForm(with_form_field(mode.form, form_field(mode.form) \o ch))
    /\ needs_full_redraw' = FALSE
    /\ UNCHANGED <<Doc, Term, hosts, filtered_hosts, selected_index, filter_text>>

\* InputChar where it has no effect: Mode::Normal, and any other key in Confirm
InputCharInert(ch) ==
    /\ Dispatch("InputCharInert")
    /\ \/ mode.tag = "Normal"
       \/ mode.tag = "Confirm" /\ ch \notin {"y", "Y", "n", "N"}
    /\ needs_full_redraw' = FALSE
    /\ UNCHANGED <<Doc, Term, hosts, filtered_hosts, selected_index, filter_text, mode>>

InputChar(ch) ==
    \/ InputCharFilter(ch)
    \/ InputCharConfirmYes(ch)
    \/ InputCharConfirmNo(ch)
    \/ InputCharForm(ch)
    \/ InputCharInert(ch)

BackspaceFilter ==
    /\ Dispatch("BackspaceFilter")
    /\ IF mode.tag = "Filter"
       THEN /\ filter_text' = pop(filter_text)
            /\ LET f == apply_filter(hosts, filter_text', selected_index)
               IN  /\ filtered_hosts' = f.filtered_hosts
                   /\ selected_index' = f.selected_index
            /\ UNCHANGED mode
       ELSE IF mode.tag = "EditForm"
       THEN /\ mode' = ModeEditForm(with_form_field(mode.form, pop(form_field(mode.form))))
            /\ UNCHANGED <<filtered_hosts, selected_index, filter_text>>
       ELSE UNCHANGED <<filtered_hosts, selected_index, filter_text, mode>>
    /\ needs_full_redraw' = FALSE
    /\ UNCHANGED <<Doc, Term, hosts>>

ClearFilter ==
    /\ Dispatch("ClearFilter")
    /\ IF mode.tag = "Filter"
       THEN /\ filter_text' = ""
            /\ LET f == apply_filter(hosts, "", selected_index)
               IN  /\ filtered_hosts' = f.filtered_hosts
                   /\ selected_index' = f.selected_index
            /\ mode' = ModeNormal
            /\ needs_full_redraw' = FALSE
       ELSE IF mode.tag = "Confirm"
       THEN /\ mode' = ModeNormal
            /\ needs_full_redraw' = TRUE
            /\ UNCHANGED <<filtered_hosts, selected_index, filter_text>>
       ELSE /\ needs_full_redraw' = FALSE
            /\ UNCHANGED <<filtered_hosts, selected_index, filter_text, mode>>
    /\ UNCHANGED <<Doc, Term, hosts>>

EditSelected ==
    /\ Dispatch("EditSelected")
    /\ LET sel == selected_host(hosts, filtered_hosts, selected_index)
       IN  IF sel.some
           THEN /\ mode' = ModeEditForm(FormData(TRUE, sel.v.pattern,
                                IF sel.v.hostname.some THEN sel.v.hostname.v ELSE "",
                                IF sel.v.user.some THEN sel.v.user.v ELSE "",
                                IF sel.v.port.some THEN to_string(sel.v.port.v) ELSE "",
                                0))
                /\ needs_full_redraw' = TRUE
           ELSE /\ needs_full_redraw' = FALSE
                /\ UNCHANGED mode
    /\ UNCHANGED <<Doc, Term, hosts, filtered_hosts, selected_index, filter_text>>

NewHost ==
    /\ Dispatch("NewHost")
    /\ mode' = ModeEditForm(FormData(FALSE, "", "", "", "", 0))
    /\ needs_full_redraw' = TRUE
    /\ UNCHANGED <<Doc, Term, hosts, filtered_hosts, selected_index, filter_text>>

DeleteSelected ==
    /\ Dispatch("DeleteSelected")
    /\ LET sel == selected_host(hosts, filtered_hosts, selected_index)
       IN  IF sel.some
           THEN /\ mode' = ModeConfirm(sel.v.pattern)
                /\ needs_full_redraw' = TRUE
           ELSE /\ needs_full_redraw' = FALSE
                /\ UNCHANGED mode
    /\ UNCHANGED <<Doc, Term, hosts, filtered_hosts, selected_index, filter_text>>

\* teardown_terminal: disable_raw_mode, then the screen is left and the cursor
\* shown; either part can fail, and then the error is returned
TeardownOutcomes == {"ok", "disable_err", "screen_err"}

\* teardown_terminal with the given outcome, and then pc is next when it succeeds
teardown_terminal(outcome, next) ==
    /\ raw_mode' = IF outcome = "disable_err" THEN raw_mode ELSE FALSE
    /\ pc' = IF outcome = "ok" THEN next ELSE "error"

\* reinit_terminal: enable_raw_mode, then the screen is entered and cleared
ReinitOutcomes == {"ok", "enable_err", "screen_err"}

\* reinit_terminal with the given outcome, and then pc is next when it succeeds
reinit_terminal(outcome, next) ==
    /\ raw_mode' = IF outcome = "enable_err" THEN raw_mode ELSE TRUE
    /\ pc' = IF outcome = "ok" THEN next ELSE "error"

\* LaunchSelected as it would be without the check for Mode::Confirm
LaunchSelected_unguarded ==
    /\ Dispatch("LaunchSelected")
    /\ LET sel == selected_host(hosts, filtered_hosts, selected_index)
       IN  IF sel.some
           THEN /\ launch_host' = sel.v.pattern
                /\ \E t \in TeardownOutcomes : teardown_terminal(t, "launch")
           ELSE UNCHANGED Term
    /\ needs_full_redraw' = FALSE
    /\ UNCHANGED <<Doc, hosts, filtered_hosts, selected_index, filter_text, mode>>

\* LaunchSelected; on LoopControl::Launch run() tears the terminal down and
\* starts the connection client
LaunchSelected ==
    /\ Dispatch("LaunchSelected")
    /\ LET sel == selected_host(hosts, filtered_hosts, selected_index)
       IN  IF mode.tag # "Confirm" /\ sel.some
           THEN /\ launch_host' = sel.v.pattern
                /\ \E t \in TeardownOutcomes : teardown_terminal(t, "launch")
           ELSE UNCHANGED Term
    /\ needs_full_redraw' = FALSE
    /\ UNCHANGED <<Doc, hosts, filtered_hosts, selected_index, filter_text, mode>>

\* launch_ssh: what the connection client does
LaunchOutcomes == {"exit_zero", "exit_nonzero", "spawn_err"}

\* LaunchReturn as it would be if run() went back to the loop without
\* reinit_terminal
LaunchReturn_no_reinit ==
    /\ pc = "launch"
    /\ steps < MaxSteps
    /\ steps' = steps + 1
    /\ \E outcome \in LaunchOutcomes :
          /\ pc' = IF outcome = "spawn_err" THEN "error" ELSE "loop"
          /\ UNCHANGED raw_mode
          /\ last' = [act |-> "LaunchReturn", outcome |-> outcome, reinit |-> "none"]
    /\ UNCHANGED <<Doc, hosts, filtered_hosts, selected_index, filter_text, mode,
                   needs_full_redraw, launch_host>>

\* LaunchReturn as it would be if a non-zero exit status were an error of run()
LaunchReturn_nonzero_fatal ==
    /\ pc = "launch"
    /\ steps < MaxSteps
    /\ steps' = steps + 1
    /\ \E outcome \in LaunchOutcomes :
          IF outcome # "exit_zero"
          THEN /\ pc' = "error"
               /\ UNCHANGED raw_mode
               /\ last' = [act |-> "LaunchReturn", outcome |-> outcome, reinit |-> "ok"]
          ELSE \E t \in ReinitOutcomes :
                  /\ reinit_terminal(t, "loop")
                  /\ last' = [act |-> "LaunchReturn", outcome |-> outcome, reinit |-> t]
    /\ UNCHANGED <<Doc, hosts, filtered_hosts, selected_index, filter_text, mode,
                   needs_full_redraw, launch_host>>

\* launch_ssh returns: a failed spawn is an error of run(), an exit status of
\* either kind is not; then reinit_terminal
LaunchReturn ==
    /\ pc = "launch"
    /\ steps < MaxSteps
    /\ steps' = steps + 1
    /\ \E outcome \in LaunchOutcomes :
          IF outcome = "spawn_err"
          THEN /\ pc' = "error"
               /\ UNCHANGED raw_mode
               /\ last' = [act |-> "LaunchReturn", outcome |-> outcome, reinit |-> "none"]
          ELSE \E t \in ReinitOutcomes :
                  /\ reinit_terminal(t, "loop")
                  /\ last' = [act |-> "LaunchReturn", outcome |-> outcome, reinit |-> t]
    /\ UNCHANGED <<Doc, hosts, filtered_hosts, selected_index, filter_text, mode,
                   needs_full_redraw, launch_host>>

FormNextField ==
    /\ Dispatch("FormNextField")
    /\ IF mode.tag = "EditForm"
       THEN mode' = ModeEditForm([mode.form EXCEPT !.current_field = (@ + 1) % 4])
       ELSE UNCHANGED mode
    /\ needs_full_redraw' = FALSE
    /\ UNCHANGED <<Doc, Term, hosts, filtered_hosts, selected_index, filter_text>>

\* FormPrevField as it would be if the cursor stopped at the first field
FormPrevField_no_wrap ==
    /\ Dispatch("FormPrevField")
    /\ IF mode.tag = "EditForm"
       THEN mode' = ModeEditForm([mode.form EXCEPT
                        !.current_field = IF @ = 0 THEN 0 ELSE @ - 1])
       ELSE UNCHANGED mode
    /\ needs_full_redraw' = FALSE
    /\ UNCHANGED <<Doc, Term, hosts, filtered_hosts, selected_index, filter_text>>

FormPrevField ==
    /\ Dispatch("FormPrevField")
    /\ IF mode.tag = "EditForm"
       THEN mode' = ModeEditForm([mode.form EXCEPT
                        !.current_field = IF @ = 0 THEN 3 ELSE @ - 1])
       ELSE UNCHANGED mode
    /\ needs_full_redraw' = FALSE
    /\ UNCHANGED <<Doc, Term, hosts, filtered_hosts, selected_index, filter_text>>

\* form_port as it would be without the p > 0 guard
form_port_accepts_zero(text) ==
    LET t == trim(text)
        p == parse_u16(t)
    IN  IF t = "" THEN [ok |-> TRUE, port |-> None]
        ELSE IF p.some THEN [ok |-> TRUE, port |-> p]
        ELSE [ok |-> FALSE, port |-> None]

\* FormSubmit: the port field, None when blank, else a u16 above 0
form_port(text) ==
    LET t == trim(text)
        p == parse_u16(t)
    IN  IF t = "" THEN [ok |-> TRUE, port |-> None]
        ELSE IF p.some /\ p.v > 0 THEN [ok |-> TRUE, port |-> p]
        ELSE [ok |-> FALSE, port |-> None]

\* FormSubmit: the entry built from the draft
form_entry(form) ==
    SshHostEntry(trim(form.pattern),
                 IF trim(form.hostname) = "" THEN None ELSE Some(trim(form.hostname)),
                 IF trim(form.user) = "" THEN None ELSE Some(trim(form.user)),
                 form_port(form.port).port,
                 <<>>)

\* SshHostEntry::validate is not among the sources: an entry whose pattern is
\* empty is no host entry and is refused; any other entry may pass or be refused
validate(entry) == IF entry.pattern = "" THEN {FALSE} ELSE {TRUE, FALSE}

FormSubmit ==
    /\ Dispatch("FormSubmit")
    /\ IF mode.tag # "EditForm"
       THEN /\ needs_full_redraw' = FALSE
            /\ UNCHANGED <<Doc, Term, hosts, filtered_hosts, selected_index,
                           filter_text, mode>>
       ELSE IF ~form_port(mode.form.port).ok
       THEN \* Err("Invalid port number"), which run() returns
            /\ pc' = "error"
            /\ needs_full_redraw' = FALSE
            /\ UNCHANGED <<Doc, raw_mode, launch_host, hosts, filtered_hosts,
                           selected_index, filter_text, mode>>
       ELSE \E valid \in validate(form_entry(mode.form)) :
            IF ~valid
            THEN /\ pc' = "error"
                 /\ needs_full_redraw' = FALSE
                 /\ UNCHANGED <<Doc, raw_mode, launch_host, hosts, filtered_hosts,
                                selected_index, filter_text, mode>>
            ELSE /\ \E io \in UpsertIo(file_exists) :
                       LET r == upsert_host(file_exists, file_text, cfg_text,
                                            form_entry(mode.form), io)
                           hs == list_hosts(r.cfg_text)
                           f == apply_filter(hs, filter_text, selected_index)
                       IN  /\ file_exists' = r.file_exists
                           /\ file_text' = r.file_text
                           /\ cfg_text' = r.cfg_text
                           /\ IF r.ok
                              THEN /\ hosts' = hs
                                   /\ filtered_hosts' = f.filtered_hosts
                                   /\ selected_index' = f.selected_index
                                   /\ mode' = ModeNormal
                                   /\ needs_full_redraw' = TRUE
                                   /\ UNCHANGED pc
                              ELSE /\ pc' = "error"
                                   /\ needs_full_redraw' = FALSE
                                   /\ UNCHANGED <<hosts, filtered_hosts,
                                                  selected_index, mode>>
                 /\ UNCHANGED <<filter_text, raw_mode, launch_host>>

FormCancel ==
    /\ Dispatch("FormCancel")
    /\ IF mode.tag = "EditForm"
       THEN /\ mode' = ModeNormal
            /\ needs_full_redraw' = TRUE
       ELSE /\ needs_full_redraw' = FALSE
            /\ UNCHANGED mode
    /\ UNCHANGED <<Doc, Term, hosts, filtered_hosts, selected_index, filter_text>>

\* Quit: LoopControl::Exit, the loop breaks and run() tears the terminal down
Quit ==
    /\ Dispatch("Quit")
    /\ \E t \in TeardownOutcomes : teardown_terminal(t, "exited")
    /\ needs_full_redraw' = FALSE
    /\ UNCHANGED <<Doc, launch_host, hosts, filtered_hosts, selected_index,
                   filter_text, mode>>

\* Noop, and Event::Tick when no key arrives within the poll
Noop ==
    /\ Dispatch("Noop")
    /\ needs_full_redraw' = FALSE
    /\ UNCHANGED <<Doc, Term, hosts, filtered_hosts, selected_index, filter_text, mode>>

\* terminal.clear, terminal.draw or read_event fails: run() returns the error
LoopError ==
    /\ Dispatch("LoopError")
    /\ pc' = "error"
    /\ UNCHANGED <<Doc, raw_mode, launch_host, hosts, filtered_hosts, selected_index,
                   filter_text, mode, needs_full_redraw>>

(***************************************************************************)
(* The session: run() after the terminal is set up                         *)
(***************************************************************************)
\* the configuration files the sessions start from
AppDocs ==
    { [exists |-> FALSE, text |-> ""],
      [exists |-> TRUE,
       text |-> "Host a\n    HostName h\n    User Ro\n    Port 7\n    IdentityFile k\n\n# work\nHost b\n    User bob"],
      [exists |-> TRUE, text |-> "Host b\nHost a\n\nHost b\n    Port 7\n"] }

\* AppState::new on the hosts of the loaded file, in mode m
InitSession(doc, m) ==
    /\ file_exists = doc.exists
    /\ file_text = doc.text
    /\ cfg_text = load(doc.exists, doc.text)
    /\ hosts = list_hosts(cfg_text)
    /\ filtered_hosts = identity_indices(Len(hosts))
    /\ selected_index = 0
    /\ filter_text = ""
    /\ mode = m
    /\ needs_full_redraw = FALSE
    /\ raw_mode = TRUE
    /\ launch_host = ""
    /\ steps = 0
    /\ last = [act |-> "init"]

Init ==
    /\ pc = "loop"
    /\ \E doc \in AppDocs : InitSession(doc, ModeNormal)

Next ==
    \/ MoveUp
    \/ MoveDown
    \/ PageUp
    \/ PageDown
    \/ BeginFilter
    \/ \E ch \in InputChars : InputChar(ch)
    \/ BackspaceFilter
    \/ ClearFilter
    \/ EditSelected
    \/ NewHost
    \/ DeleteSelected
    \/ LaunchSelected
    \/ LaunchReturn
    \/ FormNextField
    \/ FormPrevField
    \/ FormSubmit
    \/ FormCancel
    \/ Quit
    \/ Noop
    \/ LoopError

Spec == Init /\ [][Next]_vars

(***************************************************************************)
(* The document engine alone: one upsert_host or delete_host, without I/O  *)
(* errors, on every document of a bounded set                              *)
(***************************************************************************)
\* the lines the generated documents are made of
LinePool == {"Host a", "Host b", "  Host a", "    User root", "", "# c"}

LineSeqs == UNION {[1..k -> LinePool] : k \in 0..MaxLines}

\* every line sequence, with and without the final line ending
GeneratedTexts ==
    {join(ls, "\n") \o (IF nl THEN "\n" ELSE "") : ls \in LineSeqs, nl \in BOOLEAN}

\* the documents of the specification's scenarios, one with CR LF endings, and
\* documents with other capitalisations of the keyword, with Port values and
\* with a declaration line whose pattern is empty
ScenarioTexts ==
    { "Host a\n    HostName 1.2.3.4\n\nHost b\n    User root\n",
      "Host a\n    HostName 1.2.3.4\n# b is the build box\nHost b\n    User root\n",
      "Host a\r\n    User root\r\n\r\nHost b\r\n",
      "host a\n    User root\nHOST b\n",
      "Host a\n    User root\nhost b\n    Port 22\n",
      "Host a\n    Port 0\n",
      "Host a\nHost \n    User root\n",
      "Host a\n    Port 65536\nHost b\n    Port x\nHost x\n    Port 65535\n" }

EngineDocs ==
    {[exists |-> TRUE, text |-> t] : t \in GeneratedTexts \cup ScenarioTexts}
    \cup {[exists |-> FALSE, text |-> ""]}

\* the entries upserted
EngineEntries ==
    { SshHostEntry("a", Some("5.6.7.8"), None, None, <<>>),
      SshHostEntry("x", None, None, Some(22), <<>>),
      SshHostEntry("a", None, Some("root"), Some(22), << <<"IdentityFile", "k">> >>),
      SshHostEntry("b", None, None, None, <<>>),
      SshHostEntry("x", Some("h"), Some("u"), None, << <<"ProxyJump", "j">> >>) }

\* the patterns deleted
EnginePatterns == {"a", "b", "x"}

EngineInit ==
    /\ pc = "engine"
    /\ \E doc \in EngineDocs : InitSession(doc, ModeNormal)

EngineUpsert ==
    /\ pc = "engine"
    /\ \E entry \in EngineEntries :
          LET r == upsert_host(file_exists, file_text, cfg_text, entry, "ok")
          IN  /\ file_exists' = r.file_exists
              /\ file_text' = r.file_text
              /\ cfg_text' = r.cfg_text
              /\ last' = [act |-> "upsert_host", entry |-> entry, ok |-> r.ok,
                          exists |-> file_exists, text |-> file_text]
    /\ pc' = "engine_done"
    /\ UNCHANGED <<hosts, filtered_hosts, selected_index, filter_text, mode,
                   needs_full_redraw, raw_mode, launch_host, steps>>

EngineDelete ==
    /\ pc = "engine"
    /\ \E pattern \in EnginePatterns :
          LET r == delete_host(file_exists, file_text, cfg_text, pattern, "ok")
          IN  /\ file_exists' = r.file_exists
              /\ file_text' = r.file_text
              /\ cfg_text' = r.cfg_text
              /\ last' = [act |-> "delete_host", pattern |-> pattern, ok |-> r.ok,
                          exists |-> file_exists, text |-> file_text]
    /\ pc' = "engine_done"
    /\ UNCHANGED <<hosts, filtered_hosts, selected_index, filter_text, mode,
                   needs_full_redraw, raw_mode, launch_host, steps>>

EngineNext == EngineUpsert \/ EngineDelete

SpecEngine == EngineInit /\ [][EngineNext]_vars

(***************************************************************************)
(* apply_filter alone, on every host list and query of a bounded set       *)
(***************************************************************************)
FilterEntries ==
    { SshHostEntry("a", None, Some("root"), None, <<>>),
      SshHostEntry("b", Some("root.example.com"), None, None, <<>>),
      SshHostEntry("c", None, None, None, <<>>),
      SshHostEntry("Web", Some("H"), Some("Bob"), Some(22), <<>>) }

FilterHostLists == UNION {[1..k -> FilterEntries] : k \in 0..MaxHosts}

FilterQueries == {"", "root", "ROOT", "b", "b h", "webh", "22"}

FilterInit ==
    /\ pc = "filter"
    /\ hosts \in FilterHostLists
    /\ filter_text \in FilterQueries
    /\ selected_index \in 0..MaxHosts
    /\ filtered_hosts = identity_indices(Len(hosts))
    /\ file_exists = FALSE
    /\ file_text = ""
    /\ cfg_text = ""
    /\ mode = ModeFilter
    /\ needs_full_redraw = FALSE
    /\ raw_mode = TRUE
    /\ launch_host = ""
    /\ steps = 0
    /\ last = [act |-> "init"]

ApplyFilter ==
    /\ pc = "filter"
    /\ LET f == apply_filter(hosts, filter_text, selected_index)
       IN  /\ filtered_hosts' = f.filtered_hosts
           /\ selected_index' = f.selected_index
    /\ pc' = "filter_done"
    /\ last' = [act |-> "apply_filter", selected |-> selected_index]
    /\ UNCHANGED <<Doc, hosts, filter_text, mode, needs_full_redraw, raw_mode,
                   launch_host, steps>>

FilterNext == ApplyFilter

SpecFilter == FilterInit /\ [][FilterNext]_vars

(***************************************************************************)
(* FormSubmit alone, on every draft of a bounded set                       *)
(***************************************************************************)
PortTexts == {"", " ", "0", "22", " 22 ", "65535", "65536", "x", "+7", "-1", "2 2", "00"}

SubmitDrafts ==
    { FormData(e, p, h, "", port, c) :
        e \in BOOLEAN, p \in {"a", " x "}, h \in {"", "h"}, port \in PortTexts,
        c \in {0, 3} }

SubmitInit ==
    /\ pc = "loop"
    /\ \E doc \in AppDocs, form \in SubmitDrafts : InitSession(doc, ModeEditForm(form))

SubmitNext == FormSubmit

SpecSubmit == SubmitInit /\ [][SubmitNext]_vars

(***************************************************************************)
(* Properties of the document engine (SpecEngine)                          *)
(***************************************************************************)
\* the lines of the document before the last engine call, and after it
LinesBefore == lines(last.text)
LinesAfter == lines(file_text)

\* line i declares pattern p: the keyword Host, then p, blanks around it ignored
Declares(line, p) ==
    LET t == trim_start(line)
    IN  starts_with(t, "Host ") /\ trim(SubSeq(t, 6, Len(t))) = p

IsDeclaration(line) == starts_with(trim_start(line), "Host ")

IsBlankOrComment(line) == trim(line) = "" \/ starts_with(trim(line), "#")

PatternPresent(ls, p) == \E i \in 1..Len(ls) : Declares(ls[i], p)

\* the declaration line of the first block for p
FirstDeclaration(ls, p) ==
    CHOOSE i \in 1..Len(ls) :
        Declares(ls[i], p) /\ \A k \in 1..(i - 1) : ~Declares(ls[k], p)

\* the next declaration line after line i, Len(ls) + 1 at the end of the file
NextDeclaration(ls, i) ==
    CHOOSE j \in (i + 1)..(Len(ls) + 1) :
        /\ j = Len(ls) + 1 \/ IsDeclaration(ls[j])
        /\ \A k \in (i + 1)..(j - 1) : ~IsDeclaration(ls[k])

\* the last directive line of the block declared at line i (i itself if none)
LastDirective(ls, i) ==
    CHOOSE d \in i..(NextDeclaration(ls, i) - 1) :
        /\ d = i \/ ~IsBlankOrComment(ls[d])
        /\ \A k \in (d + 1)..(NextDeclaration(ls, i) - 1) : IsBlankOrComment(ls[k])

\* the lines of the rendered block, with its blank separator line and without
RenderedLines(entry) == lines(render_host_block(entry))
RenderedDirectives(entry) == SubSeq(RenderedLines(entry), 1, Len(RenderedLines(entry)) - 1)

UpsertedPresent ==
    /\ pc = "engine_done"
    /\ last.act = "upsert_host"
    /\ PatternPresent(LinesBefore, last.entry.pattern)

UpsertedAbsent ==
    /\ pc = "engine_done"
    /\ last.act = "upsert_host"
    /\ ~PatternPresent(LinesBefore, last.entry.pattern)

DeletedPresent ==
    /\ pc = "engine_done"
    /\ last.act = "delete_host"
    /\ PatternPresent(LinesBefore, last.pattern)

DeletedAbsent ==
    /\ pc = "engine_done"
    /\ last.act = "delete_host"
    /\ ~PatternPresent(LinesBefore, last.pattern)

\* C1: upsert of a present pattern replaces the lines from the declaration
\* through the block's last directive line with the rendered block and leaves
\* every line outside that range (blank lines and comments before the next
\* declaration included) unchanged and in order; the scenario of the
\* specification yields the stated text.
C1_UpsertReplacesThroughLastDirective ==
    UpsertedPresent =>
        LET ls == LinesBefore
            i == FirstDeclaration(ls, last.entry.pattern)
            d == LastDirective(ls, i)
            before == SubSeq(ls, 1, i - 1)
            after == SubSeq(ls, d + 1, Len(ls))
        IN  /\ \/ LinesAfter = before \o RenderedDirectives(last.entry) \o after
               \/ LinesAfter = before \o RenderedLines(last.entry) \o after
            /\ (/\ last.text = "Host a\n    HostName 1.2.3.4\n\nHost b\n    User root\n"
                /\ last.entry = SshHostEntry("a", Some("5.6.7.8"), None, None, <<>>))
               => file_text = "Host a\n    HostName 5.6.7.8\n\nHost b\n    User root\n"

\* C2: upsert of an absent pattern adds exactly one host block, appends the
\* rendered block at the end of the file and leaves every line that was there
\* unchanged and in order; on an empty document {pattern x, port 22} yields
\* exactly "Host x\n    Port 22\n\n".
C2_UpsertAppends ==
    UpsertedAbsent =>
        /\ Len(list_hosts(file_text)) = Len(list_hosts(last.text)) + 1
        /\ Cardinality({i \in 1..Len(LinesAfter) : IsDeclaration(LinesAfter[i])})
             = Cardinality({i \in 1..Len(LinesBefore) : IsDeclaration(LinesBefore[i])}) + 1
        /\ LinesAfter = LinesBefore \o RenderedLines(last.entry)
        /\ starts_with(file_text, last.text)
        /\ ends_with(file_text, render_host_block(last.entry))
        /\ (last.text = "" /\ last.entry = SshHostEntry("x", None, None, Some(22), <<>>))
              => file_text = "Host x\n    Port 22\n\n"

\* an absent pattern is appended to a document of several lines whose last
\* line has no line ending
C2_Witness ==
    /\ UpsertedAbsent
    /\ Len(LinesBefore) >= 2
    /\ ~ends_with(last.text, "\n")
    /\ PatternPresent(LinesBefore, "a")

\* C3: delete of a present pattern removes exactly the lines of its block, the
\* declaration through the line before the next Host declaration or the end
\* of the file, and leaves every other line unchanged and in order.
C3_DeleteRemovesExactlyTheBlock ==
    DeletedPresent =>
        LET ls == LinesBefore
            i == FirstDeclaration(ls, last.pattern)
            j == NextDeclaration(ls, i)
        IN  LinesAfter = SubSeq(ls, 1, i - 1) \o SubSeq(ls, j, Len(ls))

\* C4: delete of a pattern no declaration carries is a no-op: the file content
\* after the call is identical to the content before it (also for a text
\* without a final newline, and for a missing file).
C4_DeleteAbsentIsNoOp ==
    DeletedAbsent =>
        /\ last.ok
        /\ file_exists = last.exists
        /\ file_text = last.text

(***************************************************************************)
(* Properties of the session (Spec), of apply_filter (SpecFilter) and of   *)
(* FormSubmit (SpecSubmit)                                                 *)
(***************************************************************************)
\* C5: in every reachable state either filtered_hosts is empty and no host is
\* selected, or 0 <= selected_index < len(filtered_hosts).
C5_SelectionInRange ==
    \/ /\ filtered_hosts = <<>>
       /\ ~selected_host(hosts, filtered_hosts, selected_index).some
    \/ /\ 0 <= selected_index
       /\ selected_index < Len(filtered_hosts)

\* a confirmed deletion removed the only host the filter showed: hosts remain,
\* the filtered list is empty
C5_Witness ==
    /\ last.act = "InputCharConfirmYes"
    /\ pc = "loop"
    /\ hosts # <<>>
    /\ filtered_hosts = <<>>
    /\ selected_index = 0

\* q occurs in s as a run of consecutive characters
IsSubstring(q, s) == \E a \in 1..(Len(s) + 1), b \in 0..Len(s) : SubSeq(s, a, b) = q

\* pattern, hostname if present and user if present, joined by single spaces
SearchText(h) ==
    join(<<h.pattern>> \o (IF h.hostname.some THEN <<h.hostname.v>> ELSE <<>>)
                       \o (IF h.user.some THEN <<h.user.v>> ELSE <<>>), " ")

\* the 0-based indices the query selects
Selected(hs, query) ==
    {i \in 0..(Len(hs) - 1) :
        query = "" \/ IsSubstring(to_lowercase(query), to_lowercase(SearchText(hs[i + 1])))}

\* C6: apply_filter yields the identity index list for the empty query, and
\* otherwise exactly the indices, in increasing order, of the hosts whose
\* lower-cased "pattern hostname user" text contains the lower-cased query;
\* "root" over {a, user root}, {b, hostname root.example.com}, {c} selects a
\* and b, not c.
C6_FilterIsCaseInsensitiveSubstring ==
    pc = "filter_done" =>
        /\ {filtered_hosts[k] : k \in 1..Len(filtered_hosts)} = Selected(hosts, filter_text)
        /\ \A k \in 1..(Len(filtered_hosts) - 1) : filtered_hosts[k] < filtered_hosts[k + 1]
        /\ filter_text = "" => filtered_hosts = identity_indices(Len(hosts))
        /\ (/\ filter_text = "root"
            /\ hosts = << SshHostEntry("a", None, Some("root"), None, <<>>),
                          SshHostEntry("b", Some("root.example.com"), None, None, <<>>),
                          SshHostEntry("c", None, None, None, <<>>) >>)
           => filtered_hosts = <<0, 1>>

\* an upper-case query selected some hosts of a list and left others out
C6_Witness ==
    /\ pc = "filter_done"
    /\ filter_text = "ROOT"
    /\ Len(hosts) = 3
    /\ Len(filtered_hosts) = 2

\* the value of an optional "+" and decimal digits, -1 for any other text
RECURSIVE DecimalValue(_)
DecimalValue(t) ==
    IF Len(t) = 0 \/ ~is_digit(CharAt(t, Len(t))) THEN -1
    ELSE IF Len(t) = 1 THEN digit_value(t)
    ELSE IF DecimalValue(pop(t)) < 0 THEN -1
    ELSE 10 * DecimalValue(pop(t)) + digit_value(CharAt(t, Len(t)))

\* the port field is blank, or an integer in 1..65535
PortFieldValid(text) ==
    LET t == trim(text)
        n == DecimalValue(IF starts_with(t, "+") THEN SubSeq(t, 2, Len(t)) ELSE t)
    IN  t = "" \/ (1 <= n /\ n <= 65535)

\* C7: submitting the form with an invalid port is rejected and the session
\* stays in EditForm: the loop keeps running and takes further events.
C7_InvalidPortKeepsLoopRunning ==
    (/\ last.act = "FormSubmit"
     /\ mode.tag = "EditForm"
     /\ ~PortFieldValid(mode.form.port))
    => pc = "loop"

\* C8: a form submit changes the configuration file and the hosts list only
\* if the port field is blank or an integer in 1..65535.
C8_InvalidPortLeavesDocument ==
    [][ (/\ mode.tag = "EditForm"
         /\ <<file_exists, file_text, cfg_text, hosts>>'
              # <<file_exists, file_text, cfg_text, hosts>>)
        => PortFieldValid(mode.form.port) ]_vars

\* a draft whose port is above 65535 was submitted and refused
C8_Witness ==
    /\ last.act = "FormSubmit"
    /\ mode.tag = "EditForm"
    /\ mode.form.port = "65536"
    /\ steps = 1

\* C9: while the mode is Confirm, LaunchSelected requests no launch, deletes
\* nothing and leaves mode, selection and document unchanged.
C9_LaunchInertInConfirm ==
    [][ (mode.tag = "Confirm" /\ LaunchSelected)
        => /\ pc' = "loop"
           /\ UNCHANGED <<launch_host, raw_mode, mode, selected_index, hosts,
                          filtered_hosts, file_exists, file_text, cfg_text>> ]_vars

\* LaunchSelected was dispatched in Confirm with a host selected
C9_Witness ==
    /\ last.act = "LaunchSelected"
    /\ mode.tag = "Confirm"
    /\ selected_host(hosts, filtered_hosts, selected_index).some

\* C10: BeginFilter, EditSelected, NewHost and DeleteSelected dispatched in a
\* mode other than Normal leave the mode and the data it carries unchanged.
C10_BrowseOnlyTransitions ==
    [][ (/\ mode.tag # "Normal"
         /\ (BeginFilter \/ EditSelected \/ NewHost \/ DeleteSelected))
        => UNCHANGED <<mode, filter_text>> ]_vars

(***************************************************************************)
(* Properties of the launch hand-off and of the terminal (Spec)            *)
(***************************************************************************)
\* C11: around a launch hand-off the terminal protocol is ordered: while the
\* connection client runs the terminal is not in raw mode (it was torn down
\* before the client started), and whenever the loop is about to read an event,
\* in particular after the client has returned, the terminal is in raw mode
\* again.
C11_TerminalOrderedAroundLaunch ==
    /\ pc = "launch" => ~raw_mode
    /\ pc = "loop" => raw_mode

\* the client has run and returned, and the loop reads events again
C11_Witness ==
    /\ pc = "loop"
    /\ last.act = "LaunchReturn"
    /\ raw_mode

\* C12: launch-selected in Browse with a host selected hands off exactly the
\* selected host's pattern (unless tearing the terminal down fails); once the
\* client has returned with an exit status, zero or not, and the terminal is
\* set up again, the loop goes on in the same mode (Browse) with hosts,
\* filtered list, selection and document unchanged; launch-selected with no
\* host selected requests no hand-off.
C12_LaunchHandsOffAndResumes ==
    [][ /\ (pc = "loop" /\ steps' = steps + 1 /\ last'.act = "LaunchSelected") =>
            LET sel == selected_host(hosts, filtered_hosts, selected_index)
            IN  /\ pc' = "launch" => sel.some /\ launch_host' = sel.v.pattern
                /\ (sel.some /\ mode.tag = "Normal") =>
                       /\ launch_host' = sel.v.pattern
                       /\ pc' \in {"launch", "error"}
                /\ ~sel.some => UNCHANGED <<pc, raw_mode, launch_host>>
        /\ (pc = "launch" /\ steps' = steps + 1) =>
            /\ last'.act = "LaunchReturn"
            /\ (last'.outcome \in {"exit_zero", "exit_nonzero"} /\ last'.reinit = "ok") =>
                   /\ pc' = "loop"
                   /\ mode' = mode
                   /\ UNCHANGED <<hosts, filtered_hosts, selected_index, filter_text,
                                  file_exists, file_text, cfg_text>>
      ]_vars

\* the client launched from Browse has returned with a non-zero exit status and
\* the session is back in the loop, in Browse
C12_Witness ==
    /\ pc = "loop"
    /\ last.act = "LaunchReturn"
    /\ last.outcome = "exit_nonzero"
    /\ mode.tag = "Normal"
    /\ launch_host # ""

\* C13: on every path by which run() ends, by quit or by an error, the
\* terminal is out of raw mode when run() returns.
C13_TerminalRestoredOnEveryExit ==
    pc \in {"exited", "error"} => ~raw_mode

(***************************************************************************)
(* Properties of the document as the session holds it (Spec)               *)
(***************************************************************************)
\* C14: while the loop runs (and while the connection client runs), the
\* in-memory text is the content of the file, a missing file counting as empty,
\* and hosts is the parse of that text.
C14_MemoryEqualsDisk ==
    pc \in {"loop", "launch"} =>
        /\ cfg_text = (IF file_exists THEN file_text ELSE "")
        /\ hosts = parse_hosts_from_text(cfg_text)

\* a submitted form was written to the file and the loop goes on
C14_Witness ==
    /\ pc = "loop"
    /\ last.act = "FormSubmit"
    /\ needs_full_redraw
    /\ mode.tag = "Normal"
    /\ file_exists
    /\ \E i \in 1..Len(hosts) : hosts[i].pattern = "c"

(***************************************************************************)
(* Further properties of the document engine (SpecEngine)                  *)
(***************************************************************************)
\* line declares pattern p, whatever the capitalisation of the keyword
DeclaresAnyCase(line, p) ==
    LET t == trim(line)
    IN  /\ Len(t) > 5
        /\ to_lowercase(SubSeq(t, 1, 5)) = "host "
        /\ trim(SubSeq(t, 6, Len(t))) = p

IsDeclarationAnyCase(line) ==
    LET t == trim(line)
    IN  Len(t) > 5 /\ to_lowercase(SubSeq(t, 1, 5)) = "host "

\* the number of lines of ls that satisfy the test
CountLines(ls, Test(_)) == Cardinality({i \in 1..Len(ls) : Test(ls[i])})

\* C15: the declaration keyword is matched whatever its capitalisation, by
\* listing and by mutation alike: every line `Host x`, `host x` or `HOST x`
\* opens a block of list_hosts (and so ends the block before it), an upsert of
\* a pattern such a line declares replaces and does not append, and a delete of
\* it leaves no line declaring it.
C15_KeywordCaseInsensitive ==
    /\ pc = "engine" =>
          Len(hosts) = CountLines(lines(cfg_text), IsDeclarationAnyCase)
    /\ (/\ pc = "engine_done"
        /\ last.act = "upsert_host"
        /\ \E i \in 1..Len(LinesBefore) : DeclaresAnyCase(LinesBefore[i], last.entry.pattern))
       => CountLines(LinesAfter, IsDeclarationAnyCase)
             = CountLines(LinesBefore, IsDeclarationAnyCase)
    /\ (pc = "engine_done" /\ last.act = "delete_host")
       => \A i \in 1..Len(LinesAfter) : ~DeclaresAnyCase(LinesAfter[i], last.pattern)

\* C16: every entry of the listing has port absent or within 1..65535; a Port
\* directive with any other value (not a number, 0, above 65535) leaves the
\* field absent.
C16_ListedPortInRange ==
    \A i \in 1..Len(hosts) : hosts[i].port.some => hosts[i].port.v \in 1..65535

\* the lines of ls that declare p
DeclarationsOf(ls, p) == {i \in 1..Len(ls) : Declares(ls[i], p)}

\* the second line of ls that declares p
SecondDeclaration(ls, p) ==
    CHOOSE k \in DeclarationsOf(ls, p) :
        Cardinality({i \in DeclarationsOf(ls, p) : i < k}) = 1

\* seq ends with the lines tail
EndsWithLines(seq, tail) ==
    /\ Len(seq) >= Len(tail)
    /\ SubSeq(seq, Len(seq) - Len(tail) + 1, Len(seq)) = tail

\* C17: when several blocks declare the pattern, upsert and delete act on the
\* first of them only: the lines before it and the lines from the second
\* declaration of the pattern on are unchanged, so every later block of the
\* pattern is still there.
C17_FirstOccurrenceWins ==
    (/\ pc = "engine_done"
     /\ last.act \in {"upsert_host", "delete_host"}
     /\ Cardinality(DeclarationsOf(LinesBefore,
            IF last.act = "upsert_host" THEN last.entry.pattern ELSE last.pattern)) >= 2)
    => LET p == IF last.act = "upsert_host" THEN last.entry.pattern ELSE last.pattern
           ls == LinesBefore
           i == FirstDeclaration(ls, p)
           k == SecondDeclaration(ls, p)
       IN  /\ Len(LinesAfter) >= i - 1
           /\ SubSeq(LinesAfter, 1, i - 1) = SubSeq(ls, 1, i - 1)
           /\ EndsWithLines(LinesAfter, SubSeq(ls, k, Len(ls)))
           /\ Cardinality(DeclarationsOf(LinesAfter, p))
                = Cardinality(DeclarationsOf(ls, p))
                  - (IF last.act = "delete_host" THEN 1 ELSE 0)

\* C17, the part of upsert_host alone
C17_UpsertFirstOccurrence ==
    (/\ pc = "engine_done"
     /\ last.act = "upsert_host"
     /\ Cardinality(DeclarationsOf(LinesBefore, last.entry.pattern)) >= 2)
    => LET p == last.entry.pattern
           ls == LinesBefore
           i == FirstDeclaration(ls, p)
           k == SecondDeclaration(ls, p)
       IN  /\ SubSeq(LinesAfter, 1, i - 1) = SubSeq(ls, 1, i - 1)
           /\ EndsWithLines(LinesAfter, SubSeq(ls, k, Len(ls)))
           /\ Cardinality(DeclarationsOf(LinesAfter, p)) = Cardinality(DeclarationsOf(ls, p))

(***************************************************************************)
(* Properties of the confirmation, of I/O errors and of the form (Spec)    *)
(***************************************************************************)
\* the events that are neither an answer to the confirmation nor open a mode
ConfirmBystanders ==
    {"MoveUp", "MoveDown", "PageUp", "PageDown", "InputCharInert", "BackspaceFilter",
     "LaunchSelected", "FormNextField", "FormPrevField", "FormSubmit", "FormCancel",
     "Noop"}

\* C18: delete-selected opens the confirmation for the pattern selected at that
\* moment; moves, pages and other keys pressed while it is open leave it as it
\* is; yes deletes exactly that pattern (the listing loses the entries of that
\* pattern and no other, and no line of the file declares it any more),
\* refreshes hosts from the document, re-runs the filter and returns to Browse;
\* no and cancel return to Browse with document and hosts unchanged.
C18_ConfirmDeletesCapturedPattern ==
    [][ (pc = "loop" /\ steps' = steps + 1) =>
        /\ (last'.act = "DeleteSelected"
            /\ selected_host(hosts, filtered_hosts, selected_index).some)
           => mode' = ModeConfirm(selected_host(hosts, filtered_hosts, selected_index).v.pattern)
        /\ (mode.tag = "Confirm" /\ last'.act \in ConfirmBystanders)
           => /\ mode' = mode
              /\ UNCHANGED <<hosts, file_exists, file_text, cfg_text>>
        /\ (last'.act = "InputCharConfirmYes" /\ pc' = "loop")
           => /\ hosts' = SelectSeq(hosts, LAMBDA h : h.pattern # mode.pattern)
              /\ hosts' = parse_hosts_from_text(cfg_text')
              /\ \A i \in 1..Len(lines(file_text')) :
                    ~Declares(lines(file_text')[i], mode.pattern)
              /\ {filtered_hosts'[k] : k \in 1..Len(filtered_hosts')}
                    = Selected(hosts', filter_text)
              /\ mode' = ModeNormal
        /\ (mode.tag = "Confirm" /\ last'.act \in {"InputCharConfirmNo", "ClearFilter"})
           => /\ mode' = ModeNormal
              /\ UNCHANGED <<hosts, file_exists, file_text, cfg_text>>
      ]_vars

\* host a, second of three, was deleted by a confirmation answered after the
\* selection had moved up to the first host
C18_Witness ==
    /\ pc = "loop"
    /\ last.act = "InputCharConfirmYes"
    /\ mode.tag = "Normal"
    /\ filter_text = ""
    /\ selected_index = 0
    /\ Len(hosts) = 2
    /\ hosts[1].pattern = "b"
    /\ hosts[2].pattern = "b"

\* C19: when upsert_host or delete_host fails at any step, run() gets the
\* error, and the in-memory text and hosts are what they were before the call;
\* the in-memory text changes only to what the file holds, and a step after
\* which memory and file differ is a step that returned the error.
C19_IoErrorLeavesMemory ==
    [][ (/\ pc = "loop"
         /\ steps' = steps + 1
         /\ last'.act \in {"FormSubmit", "InputCharConfirmYes"}) =>
        /\ pc' = "error" => (cfg_text' = cfg_text /\ hosts' = hosts)
        /\ cfg_text' # cfg_text => (file_exists' /\ cfg_text' = file_text')
        /\ hosts' # hosts => hosts' = parse_hosts_from_text(file_text')
        /\ cfg_text' # (IF file_exists' THEN file_text' ELSE "") => pc' = "error"
      ]_vars

\* an upsert failed after the file had been truncated: run() has the error, the
\* file has changed and the in-memory text has not
C19_Witness ==
    /\ pc = "error"
    /\ last.act = "FormSubmit"
    /\ file_exists
    /\ cfg_text # file_text

\* the four fields of a draft, in the order of the cursor
DraftFields(form) == <<form.pattern, form.hostname, form.user, form.port>>

\* C20: in EditForm the field cursor is in 0..3; next-field takes cursor c to
\* (c + 1) mod 4 and prev-field to (c + 3) mod 4, and neither changes a field
\* of the draft (so next then prev, and four nexts, restore the draft and its
\* cursor); a typed character is appended to the field at the cursor and
\* backspace removes that field's last character, and neither changes the
\* cursor or another field.
C20_FieldCursorCyclesModulo4 ==
    [][ /\ mode'.tag = "EditForm" => mode'.form.current_field \in 0..3
        /\ (pc = "loop" /\ steps' = steps + 1 /\ mode.tag = "EditForm") =>
           LET c == mode.form.current_field
               old == DraftFields(mode.form)
           IN  /\ last'.act = "FormNextField" =>
                     /\ mode'.tag = "EditForm"
                     /\ mode'.form.current_field = (c + 1) % 4
                     /\ DraftFields(mode'.form) = old
                     /\ mode'.form.is_editing = mode.form.is_editing
               /\ last'.act = "FormPrevField" =>
                     /\ mode'.tag = "EditForm"
                     /\ mode'.form.current_field = (c + 3) % 4
                     /\ DraftFields(mode'.form) = old
                     /\ mode'.form.is_editing = mode.form.is_editing
               /\ last'.act \in {"InputCharForm", "BackspaceFilter"} =>
                     /\ mode'.tag = "EditForm"
                     /\ mode'.form.current_field = c
                     /\ mode'.form.is_editing = mode.form.is_editing
                     /\ \A k \in 1..4 :
                           k # c + 1 => DraftFields(mode'.form)[k] = old[k]
                     /\ LET new == DraftFields(mode'.form)[c + 1]
                        IN  IF last'.act = "InputCharForm"
                            THEN /\ Len(new) = Len(old[c + 1]) + 1
                                 /\ SubSeq(new, 1, Len(old[c + 1])) = old[c + 1]
                            ELSE new = SubSeq(old[c + 1], 1,
                                              IF Len(old[c + 1]) = 0 THEN 0
                                              ELSE Len(old[c + 1]) - 1)
      ]_vars

\* prev-field has taken the cursor from the first field round to the last, in
\* a draft with text in it
C20_Witness ==
    /\ mode.tag = "EditForm"
    /\ last.act = "FormPrevField"
    /\ mode.form.current_field = 3
    /\ mode.form.pattern # ""

(***************************************************************************)
(* Properties of the filter within the session (Spec)                      *)
(***************************************************************************)
\* C21: in every reachable state filtered_hosts is the filter applied to the
\* current hosts and the current filter text: its indices are below len(hosts)
\* and strictly increasing, and they are exactly the hosts the text selects
\* (all of them when the text is empty); so no action changes hosts or the
\* filter text without recomputing it.
C21_FilteredHostsConsistent ==
    /\ \A k \in 1..Len(filtered_hosts) : filtered_hosts[k] \in 0..(Len(hosts) - 1)
    /\ \A k \in 1..(Len(filtered_hosts) - 1) : filtered_hosts[k] < filtered_hosts[k + 1]
    /\ {filtered_hosts[k] : k \in 1..Len(filtered_hosts)} = Selected(hosts, filter_text)

\* a host was added by a submitted form while a filter text was set that
\* leaves some hosts out
C21_Witness ==
    /\ pc = "loop"
    /\ last.act = "FormSubmit"
    /\ needs_full_redraw
    /\ filter_text # ""
    /\ Len(filtered_hosts) > 0
    /\ Len(filtered_hosts) < Len(hosts)

\* C22: the filter text lives in Mode::Filter only: whenever the mode is
\* Normal (Browse) the filter text is empty and filtered_hosts is the identity
\* list over hosts.
C22_FilterTextOnlyInFilterMode ==
    mode.tag = "Normal" =>
        /\ filter_text = ""
        /\ filtered_hosts = [i \in 1..Len(hosts) |-> i - 1]

(***************************************************************************)
(* Properties of editing a host through the form (Spec)                    *)
(***************************************************************************)
\* a form opened by edit-selected is submitted and the loop goes on
EditSubmitted ==
    /\ pc = "loop"
    /\ steps' = steps + 1
    /\ last'.act = "FormSubmit"
    /\ mode.tag = "EditForm"
    /\ mode.form.is_editing
    /\ pc' = "loop"

\* the position in hs of the first host with pattern p, 0 if there is none
FirstHost(hs, p) ==
    IF \E i \in 1..Len(hs) : hs[i].pattern = p
    THEN CHOOSE i \in 1..Len(hs) :
            hs[i].pattern = p /\ \A k \in 1..(i - 1) : hs[k].pattern # p
    ELSE 0

\* C23: submitting a form opened by edit-selected keeps the directives of the
\* block's `other` bucket: the host the draft names has, after the submit, the
\* `other` pairs it had before, in the same order.
C23_EditKeepsOtherDirectives ==
    [][ EditSubmitted =>
          LET p == trim(mode.form.pattern)
              i == FirstHost(hosts, p)
          IN  i # 0 =>
                 /\ FirstHost(hosts', p) = i
                 /\ hosts'[i].other = hosts[i].other
      ]_vars

\* C24: submitting a form opened by edit-selected never adds a host block: the
\* document has no more declaration lines, and hosts no more entries, than
\* before (the edited block is replaced, also under a changed pattern).
C24_EditNeverAddsBlock ==
    [][ EditSubmitted =>
          /\ Len(hosts') <= Len(hosts)
          /\ CountLines(lines(file_text'), IsDeclaration)
                <= CountLines(lines(file_text), IsDeclaration)
      ]_vars

(***************************************************************************)
(* The engine as a refinement of an ordered host list (SpecEngine)         *)
(***************************************************************************)
\* hs without its first entry of pattern p
RemoveFirst(hs, p) ==
    LET i == FirstHost(hs, p)
    IN  IF i = 0 THEN hs ELSE SubSeq(hs, 1, i - 1) \o SubSeq(hs, i + 1, Len(hs))

\* hs with its first entry of the pattern of e replaced by e, or with e
\* appended when there is none
ReplaceFirstOrAppend(hs, e) ==
    LET i == FirstHost(hs, e.pattern)
    IN  IF i = 0 THEN Append(hs, e) ELSE [hs EXCEPT ![i] = e]

\* C25: list_hosts relates the text to an ordered host list that the
\* mutations refine: the listing after delete(p) is the listing before without
\* the entry for p, and the listing after upsert(e) is the listing before with
\* the first entry of e's pattern replaced by e, or with e appended when there
\* is none; for every text, comments, blank lines and declaration lines with an
\* empty pattern included.
C25_EngineRefinesHostList ==
    pc = "engine_done" =>
        IF last.act = "delete_host"
        THEN list_hosts(file_text) = RemoveFirst(list_hosts(last.text), last.pattern)
        ELSE list_hosts(file_text) = ReplaceFirstOrAppend(list_hosts(last.text), last.entry)

\* C25 on the texts in which no pattern is declared twice and every declaration
\* line has a pattern
C25_OnWellFormedTexts ==
    (/\ pc = "engine_done"
     /\ \A i \in 1..Len(LinesBefore) :
           /\ IsDeclaration(LinesBefore[i]) => trim(LinesBefore[i]) # "Host"
           /\ \A k \in 1..Len(LinesBefore) :
                 (k # i /\ IsDeclaration(LinesBefore[i]))
                    => ~Declares(LinesBefore[k], host_rest(LinesBefore[i])))
    => C25_EngineRefinesHostList

====
